---- MODULE Spec2Model ----
(***************************************************************************)
(* A model of statistics_and_trends.py: the table read from data.csv, the  *)
(* seven functions of the script and the entry point main.                 *)
(*                                                                         *)
(* Numbers.  The script computes in IEEE doubles.  The model computes the  *)
(* same quantities exactly: a value is a record                            *)
(*     [kind |-> "nan"]                                                    *)
(*     [kind |-> "rat",  sign, num, den]   sign * num / den                *)
(*     [kind |-> "sqrt", sign, num, den]   sign * sqrt(num / den)          *)
(* with num and den naturals of arbitrary size (little-endian digit        *)
(* sequences), because the ninth powers that decide a logarithmic bucket   *)
(* and the fourth central moments do not fit TLC's 32-bit integers.        *)
(***************************************************************************)
EXTENDS Integers, Sequences, FiniteSets, TLC

\* ------------------------------------------------------------------ bounds
\* The largest number of rows of a table read from data.csv.
MaxRows == 3

\* ------------------------------------------------- arbitrary-size naturals
BigBase == 100 * 100

RECURSIVE BigNorm(_)
BigNorm(a) ==
    IF Len(a) > 0 /\ a[Len(a)] = 0 THEN BigNorm(SubSeq(a, 1, Len(a) - 1)) ELSE a

RECURSIVE BigOfNat(_)
BigOfNat(n) ==
    IF n = 0 THEN <<>> ELSE <<n % BigBase>> \o BigOfNat(n \div BigBase)

RECURSIVE BigAddC(_, _, _)
BigAddC(a, b, c) ==
    IF a = <<>> /\ b = <<>>
    THEN BigOfNat(c)
    ELSE LET x == IF a = <<>> THEN 0 ELSE Head(a)
             y == IF b = <<>> THEN 0 ELSE Head(b)
             t == x + y + c
         IN  <<t % BigBase>>
               \o BigAddC(IF a = <<>> THEN a ELSE Tail(a),
                          IF b = <<>> THEN b ELSE Tail(b), t \div BigBase)

BigAdd(a, b) == BigNorm(BigAddC(a, b, 0))

\* a - b for a >= b
RECURSIVE BigSubC(_, _, _)
BigSubC(a, b, borrow) ==
    IF a = <<>>
    THEN <<>>
    ELSE LET y == IF b = <<>> THEN 0 ELSE Head(b)
             t == Head(a) - y - borrow
         IN  <<IF t < 0 THEN t + BigBase ELSE t>>
               \o BigSubC(Tail(a), IF b = <<>> THEN b ELSE Tail(b),
                          IF t < 0 THEN 1 ELSE 0)

BigSub(a, b) == BigNorm(BigSubC(a, b, 0))

\* a * k for a natural k < BigBase * 20
RECURSIVE BigMulSmallC(_, _, _)
BigMulSmallC(a, k, c) ==
    IF a = <<>>
    THEN BigOfNat(c)
    ELSE LET t == Head(a) * k + c
         IN  <<t % BigBase>> \o BigMulSmallC(Tail(a), k, t \div BigBase)

BigMulSmall(a, k) == BigNorm(BigMulSmallC(a, k, 0))

RECURSIVE BigMul(_, _)
BigMul(a, b) ==
    IF b = <<>> \/ a = <<>>
    THEN <<>>
    ELSE BigAdd(BigMulSmall(a, Head(b)),
                LET r == BigMul(a, Tail(b)) IN IF r = <<>> THEN r ELSE <<0>> \o r)

RECURSIVE BigPow(_, _)
BigPow(a, e) == IF e = 0 THEN <<1>> ELSE BigMul(BigPow(a, e - 1), a)

\* -1, 0, 1 as a < b, a = b, a > b (both normalised)
RECURSIVE BigCmpFrom(_, _, _)
BigCmpFrom(a, b, i) ==
    IF i = 0 THEN 0
    ELSE IF a[i] < b[i] THEN -1
    ELSE IF a[i] > b[i] THEN 1
    ELSE BigCmpFrom(a, b, i - 1)

BigCmp(a, b) ==
    IF Len(a) < Len(b) THEN -1
    ELSE IF Len(a) > Len(b) THEN 1
    ELSE BigCmpFrom(a, b, Len(a))

Abs(i) == IF i < 0 THEN -i ELSE i
Sgn(i) == IF i < 0 THEN -1 ELSE IF i > 0 THEN 1 ELSE 0

\* ------------------------------------------------------------ exact values
NaN == [kind |-> "nan"]

\* sign * num / den, with num and den naturals of arbitrary size, den > 0
Rat(s, num, den) ==
    [kind |-> "rat", sign |-> IF num = <<>> THEN 0 ELSE s, num |-> num, den |-> den]

\* sign * sqrt(num / den)
Sqrt(s, num, den) ==
    [kind |-> "sqrt", sign |-> IF num = <<>> THEN 0 ELSE s, num |-> num, den |-> den]

\* the quotient of two integers, p / q with q > 0
Quot(p, q) == Rat(Sgn(p), BigOfNat(Abs(p)), BigOfNat(q))

IsNaN(x) == x.kind = "nan"

\* |x| compared with p / q (p, q naturals, q > 0): -1, 0, 1
CmpAbs(x, p, q) ==
    IF x.kind = "rat"
    THEN BigCmp(BigMulSmall(x.num, q), BigMulSmall(x.den, p))
    ELSE BigCmp(BigMulSmall(x.num, q * q), BigMulSmall(x.den, p * p))

\* Python's abs(x) < p / q on a double: False on nan
AbsLess(x, p, q) == ~IsNaN(x) /\ CmpAbs(x, p, q) = -1

\* Python's x > p / q for p / q >= 0: False on nan
Greater(x, p, q) == ~IsNaN(x) /\ x.sign = 1 /\ CmpAbs(x, p, q) = 1

\* numeric equality of two values of the same kind
NumEq(x, y) ==
    IF IsNaN(x) \/ IsNaN(y)
    THEN IsNaN(x) /\ IsNaN(y)
    ELSE /\ x.kind = y.kind
         /\ x.sign = y.sign
         /\ BigMul(x.num, y.den) = BigMul(y.num, x.den)

\* --------------------------------------------------------------- the table
\* The values a cell of data.csv takes in the model.  "other" is a test group
\* besides the two the script names; 1, 100 and 150 are the least count, the
\* threshold and a count above it.  None of the counts above 1 is a perfect
\* cube, so no inner bucket edge is an integer.
TestGroups == <<"ad", "psa", "other">>
AdsValues == <<1, 5, 50, 100, 150>>
ConvertedTexts == <<"False", "True">>

RequiredColumns == <<"test group", "converted", "total ads", "most ads hour">>

NoFile == [kind |-> "no file"]
NoTable == [kind |-> "no table"]

Range(s) == {s[i] : i \in DOMAIN s}

RECURSIVE SumSeq(_)
SumSeq(s) == IF s = <<>> THEN 0 ELSE Head(s) + SumSeq(Tail(s))

MaxOfSeq(s) == CHOOSE x \in Range(s) : \A y \in Range(s) : y <= x
MinOfSeq(s) == CHOOSE x \in Range(s) : \A y \in Range(s) : x <= y

\* One line of data.csv, from its code: the codes order the lines.
\* Lines of the two named groups take every count and outcome; the lines of the
\* third group are all alike.
NamedCodes == 2 * Len(AdsValues) * Len(ConvertedTexts)
RowCodes == 0 .. NamedCodes
RowOfCode(c) ==
    IF c < NamedCodes
    THEN [group |-> TestGroups[(c \div (Len(AdsValues) * Len(ConvertedTexts))) + 1],
          ads |-> AdsValues[((c \div Len(ConvertedTexts)) % Len(AdsValues)) + 1],
          converted |-> ConvertedTexts[(c % Len(ConvertedTexts)) + 1]]
    ELSE [group |-> TestGroups[3], ads |-> AdsValues[4], converted |-> ConvertedTexts[2]]

\* The files are enumerated up to the order of their lines.
RECURSIVE SortedCodes(_, _)
SortedCodes(n, lo) ==
    IF n = 0
    THEN {<<>>}
    ELSE UNION {{<<c>> \o s : s \in SortedCodes(n - 1, c)} :
                c \in {d \in RowCodes : d >= lo}}

\* The hour of the line at position i.
MostAdsHour(i) == (9 + 5 * i) % 24

\* A data.csv: its header after the index column, and its lines.
CsvOfCodes(codes, header) ==
    [kind |-> "csv",
     header |-> header,
     lines |-> [i \in 1 .. Len(codes) |->
                  [id |-> i - 1,
                   group |-> RowOfCode(codes[i]).group,
                   converted |-> RowOfCode(codes[i]).converted,
                   ads |-> RowOfCode(codes[i]).ads,
                   hour |-> MostAdsHour(i)]]]

Without(seq, c) == SelectSeq(seq, LAMBDA x : x # c)

CsvFiles ==
    {CsvOfCodes(codes, RequiredColumns) :
        codes \in UNION {SortedCodes(n, 0) : n \in 1 .. MaxRows}}
    \cup {CsvOfCodes(codes, Without(RequiredColumns, c)) :
            codes \in SortedCodes(1, 0), c \in Range(RequiredColumns)}

\* pd.read_csv('data.csv', index_col=0): the first column is the index, True and
\* False are read as booleans, digits as integers, anything else as text.
ParseBool(text) == text = "True"

read_csv(file) ==
    LET n == Len(file.lines)
        column(c) ==
            IF c = "test group"
            THEN [dtype |-> "object", values |-> [i \in 1 .. n |-> file.lines[i].group]]
            ELSE IF c = "converted"
            THEN [dtype |-> "bool",
                  values |-> [i \in 1 .. n |-> ParseBool(file.lines[i].converted)]]
            ELSE IF c = "total ads"
            THEN [dtype |-> "int64", values |-> [i \in 1 .. n |-> file.lines[i].ads]]
            ELSE [dtype |-> "int64", values |-> [i \in 1 .. n |-> file.lines[i].hour]]
    IN  [kind |-> "table",
         index |-> [i \in 1 .. n |-> file.lines[i].id],
         columns |-> file.header,
         data |-> [c \in Range(file.header) |-> column(c)]]

HasColumns(df, cs) == df.kind = "table" /\ cs \subseteq DOMAIN df.data

\* df[c] = column: an existing column is replaced, a new one is appended
WithColumn(df, c, column) ==
    [kind |-> "table",
     index |-> df.index,
     columns |-> IF c \in DOMAIN df.data THEN df.columns ELSE Append(df.columns, c),
     data |-> [k \in DOMAIN df.data \cup {c} |-> IF k = c THEN column ELSE df.data[k]]]

\* the cells of a boolean or integer column as numbers
AsInts(column) ==
    IF column.dtype = "bool"
    THEN [i \in DOMAIN column.values |-> IF column.values[i] THEN 1 ELSE 0] \o <<>>
    ELSE column.values

\* the positions of the rows of a test group
RowsOf(df, group) ==
    SelectSeq([i \in 1 .. Len(df.index) |-> i],
              LAMBDA i : df.data["test group"].values[i] = group)

Pick(values, rows) == [k \in 1 .. Len(rows) |-> values[rows[k]]] \o <<>>

\* ------------------------------------------------------------- statistics
\* Series.mean()
Mean(xs) == IF xs = <<>> THEN NaN ELSE Quot(SumSeq(xs), Len(xs))

\* n * sum(x * y) - sum(x) * sum(y): n * n times the covariance of xs and ys
Cross(xs, ys) ==
    Len(xs) * SumSeq([i \in DOMAIN xs |-> xs[i] * ys[i]]) - SumSeq(xs) * SumSeq(ys)

\* Series.std(): the sample standard deviation (ddof = 1), nan on one value
Std(xs) ==
    IF Len(xs) < 2
    THEN NaN
    ELSE Sqrt(1, BigOfNat(Cross(xs, xs)), BigOfNat(Len(xs) * Len(xs) * (Len(xs) - 1)))

\* Pearson's correlation, nan when either column is constant or empty
Corr(xs, ys) ==
    LET sxx == Cross(xs, xs)
        syy == Cross(ys, ys)
        sxy == Cross(xs, ys)
    IN  IF xs = <<>> \/ sxx = 0 \/ syy = 0
        THEN NaN
        ELSE Sqrt(Sgn(sxy), BigMul(BigOfNat(Abs(sxy)), BigOfNat(Abs(sxy))),
                  BigMul(BigOfNat(sxx), BigOfNat(syy)))

RECURSIVE BigSum(_)
BigSum(s) == IF s = <<>> THEN <<>> ELSE BigAdd(Head(s), BigSum(Tail(s)))

\* What scipy returns for a column without variance: nan as of scipy 1.9, and
\* before that 0 for the skewness and 0 - 3 for the kurtosis.
ScipyConventions == {"nan", "zero"}

\* n times the deviation of each value from the mean
Deviations(xs) == [i \in DOMAIN xs |-> Len(xs) * xs[i] - SumSeq(xs)]

\* scipy.stats.skew(xs): m3 / m2 ^ 1.5 with the biased central moments
Skew(xs, constant) ==
    LET d == Deviations(xs)
        m2 == SumSeq([i \in DOMAIN d |-> d[i] * d[i]])
        m3 == SumSeq([i \in DOMAIN d |-> d[i] * d[i] * d[i]])
    IN  IF m2 = 0
        THEN IF constant = "nan" THEN NaN ELSE Sqrt(0, <<>>, <<1>>)
        ELSE Sqrt(Sgn(m3),
                  BigMulSmall(BigMul(BigOfNat(Abs(m3)), BigOfNat(Abs(m3))), Len(xs)),
                  BigPow(BigOfNat(m2), 3))

\* scipy.stats.kurtosis(xs): m4 / m2 ^ 2 - 3 with the biased central moments
Kurtosis(xs, constant) ==
    LET d == Deviations(xs)
        m2 == SumSeq([i \in DOMAIN d |-> d[i] * d[i]])
        sq == BigMul(BigOfNat(m2), BigOfNat(m2))
        m4 == BigSum([i \in DOMAIN d |->
                        BigMul(BigOfNat(d[i] * d[i]), BigOfNat(d[i] * d[i]))])
        a == BigMulSmall(m4, Len(xs))
        b == BigMulSmall(sq, 3)
    IN  IF m2 = 0
        THEN IF constant = "nan" THEN NaN ELSE Quot(-3, 1)
        ELSE IF BigCmp(a, b) >= 0
        THEN Rat(1, BigSub(a, b), sq)
        ELSE Rat(-1, BigSub(b, a), sq)

\* the four moments of a column of integers
MomentsOf(xs, constant) ==
    <<Mean(xs), Std(xs), Skew(xs, constant), Kurtosis(xs, constant)>>

NoMoments == <<>>

IsError(e) == e # "none"

\* ------------------------------------------------------------- statistical_analysis
\* The column read is 'total ads', whatever col names.
statistical_analysis(df, c, constant) ==
    IF ~HasColumns(df, {"total ads"})
    THEN [exc |-> "KeyError", ret |-> NoMoments]
    ELSE [exc |-> "none", ret |-> MomentsOf(df.data["total ads"].values, constant)]

\* ------------------------------------------------------------- preprocessing
NumericColumns(df) == SelectSeq(df.columns, LAMBDA c : df.data[c].dtype = "int64")

\* df.head(): the first five rows
HeadRows(df) == IF Len(df.index) < 5 THEN Len(df.index) ELSE 5

head(df) ==
    [kind |-> "table",
     index |-> SubSeq(df.index, 1, HeadRows(df)),
     columns |-> df.columns,
     data |-> [c \in DOMAIN df.data |->
                 [dtype |-> df.data[c].dtype,
                  values |-> SubSeq(df.data[c].values, 1, HeadRows(df))]]]

\* df.describe(): count, mean, std, min and max of each numeric column (the
\* quartiles are left out)
describe(df) ==
    [k \in 1 .. Len(NumericColumns(df)) |->
        LET xs == df.data[NumericColumns(df)[k]].values
        IN  [column |-> NumericColumns(df)[k], count |-> Len(xs), mean |-> Mean(xs),
             std |-> Std(xs), min |-> MinOfSeq(xs), max |-> MaxOfSeq(xs)]]

\* df.isnull().sum(): no cell of the files of the model is empty
isnull_sum(df) == [k \in 1 .. Len(df.columns) |-> [column |-> df.columns[k], nulls |-> 0]]

\* df[cs]: the table of the columns cs
Select(df, cs) ==
    [kind |-> "table", index |-> df.index, columns |-> cs,
     data |-> [c \in Range(cs) |-> df.data[c]]]

\* A preprocessing that hands back the two columns it correlates.
preprocessing_returns_selection(df) ==
    LET first == <<[print |-> "head", what |-> head(df)],
                   [print |-> "describe", what |-> describe(df)],
                   [print |-> "isnull", what |-> isnull_sum(df)]>>
    IN  IF HasColumns(df, {"total ads", "most ads hour"})
        THEN [exc |-> "none", ret |-> Select(df, <<"total ads", "most ads hour">>),
              df |-> df,
              printed |-> Append(first,
                  [print |-> "corr",
                   what |-> Corr(df.data["total ads"].values,
                                 df.data["most ads hour"].values)])]
        ELSE [exc |-> "KeyError", ret |-> NoTable, df |-> df, printed |-> first]

\* Returns the table it was given; the correlation is looked up last.
preprocessing(df) ==
    LET first == <<[print |-> "head", what |-> head(df)],
                   [print |-> "describe", what |-> describe(df)],
                   [print |-> "isnull", what |-> isnull_sum(df)]>>
    IN  IF HasColumns(df, {"total ads", "most ads hour"})
        THEN [exc |-> "none", ret |-> df, df |-> df,
              printed |-> Append(first,
                  [print |-> "corr",
                   what |-> Corr(df.data["total ads"].values,
                                 df.data["most ads hour"].values)])]
        ELSE [exc |-> "KeyError", ret |-> NoTable, df |-> df, printed |-> first]

\* ------------------------------------------------------------- plot_relational_plot
\* A bucket edge, 10 ** (p * log10(m) / q): the real number m ^ (p / q), moved
\* by rnd roundings of the double arithmetic (-1 below it, 0 on it, 1 above).
\* np.log10(m) is exact only for a power of ten, and 10 ** y is then exact
\* too; for any other m the last edge is max(total ads) only up to rounding,
\* and which way it falls depends on the build of numpy and libm.  The first
\* edge is 10 ** 0 = 1 exactly.  The inner edges of the counts of the model
\* are irrational, so their rounding moves no integer across them.
RECURSIVE IsPowerOfTen(_)
IsPowerOfTen(m) == m = 1 \/ (m % 10 = 0 /\ IsPowerOfTen(m \div 10))

Roundings(m) == IF IsPowerOfTen(m) THEN {0} ELSE {-1, 0, 1}

MaxAds == MaxOfSeq(AdsValues)

\* r ^ e for the integers r and the exponents e the edges are compared
\* through, computed once: PowerRows[r + 1][e + 1]
PowerRows ==
    [r \in 1 .. MaxAds + 3 |->
        [e \in 1 .. 10 |-> BigPow(BigOfNat(r - 1), e - 1)] \o <<>>] \o <<>>

Power(r, e) == PowerRows[r + 1][e + 1]

\* A logspace of nine edges, one per bucket.
logspace_of_nine(m, rnd) ==
    [j \in 1 .. 9 |-> [p |-> j - 1, q |-> 8, m |-> m,
                       rnd |-> IF j = 9 THEN rnd ELSE 0]]

\* np.logspace(0, np.log10(m), num=10)
logspace(m, rnd) ==
    [j \in 1 .. 10 |-> [p |-> j - 1, q |-> 9, m |-> m,
                        rnd |-> IF j = 10 THEN rnd ELSE 0]]

\* an integer x against an edge e: -1, 0, 1 as x < e, x = e, x > e
\* (x against m ^ (p / q) as x ^ q against m ^ p)
ValueCmpEdge(x, e) ==
    LET c == BigCmp(Power(x, e.q), Power(e.m, e.p))
    IN  IF c # 0 THEN c ELSE -e.rnd

\* two edges over the same maximum: -1, 0, 1
EdgeCmp(e, f) ==
    LET c == BigCmp(Power(e.m, e.p), Power(f.m, f.p))
    IN  IF c # 0 THEN c ELSE Sgn(e.rnd - f.rnd)

\* int(e): the integer part of an edge
IntOf(e) ==
    CHOOSE r \in 0 .. e.m : ValueCmpEdge(r, e) <= 0 /\ ValueCmpEdge(r + 1, e) > 0

\* [f"{int(bins[i])}-{int(bins[i+1])}" for i in range(len(bins)-1)]: a label
\* is the pair of the two integers its text joins
BinLabels(bins) ==
    [i \in 1 .. Len(bins) - 1 |-> <<IntOf(bins[i]), IntOf(bins[i + 1])>>]

\* the label of a row that falls in no bucket
NaNLabel == <<>>

\* pd.cut refuses edges that decrease or repeat, and labels that repeat or
\* are not one per interval
CutAccepts(bins, bin_labels) ==
    /\ \A i \in 1 .. Len(bins) - 1 : EdgeCmp(bins[i], bins[i + 1]) <= 0
    /\ \A i, j \in 1 .. Len(bins) : i < j => EdgeCmp(bins[i], bins[j]) # 0
    /\ Len(bin_labels) = Len(bins) - 1
    /\ \A i, j \in 1 .. Len(bin_labels) : i < j => bin_labels[i] # bin_labels[j]

\* pd.cut(x, bins): the interval (bins[i], bins[i+1]] that holds x, 0 if none
BinOf(x, bins) ==
    IF \E i \in 1 .. Len(bins) - 1 :
           ValueCmpEdge(x, bins[i]) > 0 /\ ValueCmpEdge(x, bins[i + 1]) <= 0
    THEN CHOOSE i \in 1 .. Len(bins) - 1 :
           ValueCmpEdge(x, bins[i]) > 0 /\ ValueCmpEdge(x, bins[i + 1]) <= 0
    ELSE 0

\* The edges and the labels for a maximum m, and whether pd.cut accepts them.
Binning(m, rnd) ==
    LET b == logspace(m, rnd) \o <<>>
        l == BinLabels(b) \o <<>>
    IN  [bins |-> b, labels |-> l, accepted |-> CutAccepts(b, l)]

\* Binning and BinOf over the counts of the model, computed once: by the
\* position of the maximum in AdsValues, by rnd + 2 and, for BinOf, by the
\* position of the count.
PositionOf(x) == CHOOSE k \in 1 .. Len(AdsValues) : AdsValues[k] = x

BinningRows ==
    [k \in 1 .. Len(AdsValues) |->
        [r \in 1 .. 3 |-> Binning(AdsValues[k], r - 2)] \o <<>>] \o <<>>

BinOfRows ==
    [k \in 1 .. Len(AdsValues) |->
        [r \in 1 .. 3 |->
            [j \in 1 .. Len(AdsValues) |->
                BinOf(AdsValues[j], BinningRows[k][r].bins)] \o <<>>] \o <<>>] \o <<>>

BinningFor(m, rnd) == BinningRows[PositionOf(m)][rnd + 2]
BinOfFor(m, rnd, x) == BinOfRows[PositionOf(m)][rnd + 2][PositionOf(x)]

\* Series.unique(): the values in the order they first appear
RECURSIVE unique(_)
unique(values) ==
    IF values = <<>>
    THEN <<>>
    ELSE LET r == unique(SubSeq(values, 1, Len(values) - 1))
             v == values[Len(values)]
         IN  IF v \in Range(r) THEN r ELSE Append(r, v)

\* mean() * 100 of the converted cells at the given rows, nan on no rows
RateOf(df, rows) ==
    IF rows = <<>>
    THEN NaN
    ELSE Quot(100 * SumSeq(Pick(AsInts(df.data["converted"]), rows)), Len(rows))

\* One line subplot: the rate of every bucket, nan where a bucket is empty.
RelationalPanel(df, group, bin_labels) ==
    [group |-> group,
     x |-> bin_labels,
     y |-> [k \in 1 .. Len(bin_labels) |->
              RateOf(df, SelectSeq(RowsOf(df, group),
                        LAMBDA i : df.data["log_ads_bin"].values[i] = bin_labels[k]))] \o <<>>]

\* the roundings the call may meet
RoundingsFor(df) ==
    IF HasColumns(df, {"total ads"})
    THEN Roundings(MaxOfSeq(df.data["total ads"].values))
    ELSE {0}

\* the number of panels of plt.subplots(1, 2)
GridPanels == 1 * 2

\* what a call of plot_relational_plot leaves: the exception it raised if
\* any, the table, the edges and labels, the panels drawn, whether it saved
NoBinning == [bins |-> <<>>, labels |-> <<>>, accepted |-> FALSE]

RelationalResult(e, df, b, panels) ==
    [exc |-> e, df |-> df, bins |-> b.bins, labels |-> b.labels,
     panels |-> panels, saved |-> e = "none"]

\* pd.cut(df['total ads'], bins=bins, labels=bin_labels)
cut(ads, rnd, bin_labels) ==
    [dtype |-> "category",
     values |-> [i \in 1 .. Len(ads) |->
                   IF BinOfFor(MaxOfSeq(ads), rnd, ads[i]) = 0
                   THEN NaNLabel
                   ELSE bin_labels[BinOfFor(MaxOfSeq(ads), rnd, ads[i])]] \o <<>>]

\* the loop over the groups, and the save
relational_subplots(df, b, groups, can_save) ==
    RelationalResult(
        IF Len(groups) > GridPanels THEN "ValueError"
        ELSE IF ~can_save THEN "OSError" ELSE "none",
        df, b,
        [i \in 1 .. (IF Len(groups) > GridPanels THEN GridPanels ELSE Len(groups)) |->
            RelationalPanel(df, groups[i], b.labels)] \o <<>>)

\* from the df with log_ads_bin on
relational_groups(df, b, can_save) ==
    IF ~HasColumns(df, {"test group", "converted"})
    THEN RelationalResult("KeyError", df, b, <<>>)
    ELSE relational_subplots(df, b, unique(df.data["test group"].values), can_save)

\* from the edges and the labels on
relational_cut(df, b, rnd, can_save) ==
    IF ~b.accepted
    THEN RelationalResult("ValueError", df, b, <<>>)
    ELSE relational_groups(
            WithColumn(df, "log_ads_bin",
                       cut(df.data["total ads"].values, rnd, b.labels)),
            b, can_save)

plot_relational_plot(df, rnd, can_save) ==
    IF ~HasColumns(df, {"total ads"})
    THEN RelationalResult("KeyError", df, NoBinning, <<>>)
    ELSE relational_cut(df,
                        BinningFor(MaxOfSeq(df.data["total ads"].values), rnd),
                        rnd, can_save)

\* ------------------------------------------------------------- plot_categorical_plot
threshold == 100

\* A classification that counts the threshold itself as above.
AdsCategory_from_threshold(x) ==
    IF x >= threshold THEN "Above 100 Ads" ELSE "Below 100 Ads"

AdsCategory(x) == IF x > threshold THEN "Above 100 Ads" ELSE "Below 100 Ads"

\* A cast that turns True into 0 and False into 1.
astype_int_negated(column) ==
    [dtype |-> "int64",
     values |-> [i \in 1 .. Len(column.values) |-> 1 - AsInts(column)[i]] \o <<>>]

\* Series.astype(int)
astype_int(column) == [dtype |-> "int64", values |-> AsInts(column)]

\* the text of a value to two decimals, with what follows it
Format2(value, suffix) == [format |-> ".2f", of |-> value, suffix |-> suffix]

\* One bar subplot: a bar and its text for each category the group has rows
\* in, in the order of the category names.
CategoricalPanel(df, group) ==
    LET rows(c) == SelectSeq(RowsOf(df, group),
                             LAMBDA i : df.data["ads_category"].values[i] = c)
        present == SelectSeq(<<"Above 100 Ads", "Below 100 Ads">>,
                             LAMBDA c : rows(c) # <<>>)
    IN  [group |-> group,
         x |-> present,
         y |-> [k \in 1 .. Len(present) |-> RateOf(df, rows(present[k]))],
         text |-> [k \in 1 .. Len(present) |->
                     Format2(RateOf(df, rows(present[k])), "%")]]

plot_categorical_plot(df, can_save) ==
    LET none == [exc |-> "none", df |-> df, panels |-> <<>>, saved |-> FALSE]
    IN  IF ~HasColumns(df, {"converted"})
        THEN [none EXCEPT !.exc = "KeyError"]
        ELSE
        LET df1 == WithColumn(df, "converted", astype_int(df.data["converted"]))
        IN  IF ~HasColumns(df1, {"total ads"})
            THEN [none EXCEPT !.exc = "KeyError", !.df = df1]
            ELSE
            LET ads == df1.data["total ads"].values
                df2 == WithColumn(df1, "ads_category",
                         [dtype |-> "object",
                          values |-> [i \in 1 .. Len(ads) |-> AdsCategory(ads[i])] \o <<>>])
                done == [none EXCEPT !.df = df2]
            IN  IF ~HasColumns(df2, {"test group"})
                THEN [done EXCEPT !.exc = "KeyError"]
                ELSE
                LET groups == <<"ad", "psa">>
                    fig == [done EXCEPT !.panels =
                              [i \in 1 .. Len(groups) |-> CategoricalPanel(df2, groups[i])] \o <<>>]
                IN  IF ~can_save
                    THEN [fig EXCEPT !.exc = "OSError"]
                    ELSE [fig EXCEPT !.saved = TRUE]

\* ------------------------------------------------------------- plot_statistical_plot
\* One heatmap: the correlation matrix of converted and total ads of a group.
StatisticalPanel(df, group) ==
    LET c == Pick(AsInts(df.data["converted"]), RowsOf(df, group))
        a == Pick(df.data["total ads"].values, RowsOf(df, group))
    IN  [group |-> group,
         matrix |-> <<<<Corr(c, c), Corr(c, a)>>, <<Corr(a, c), Corr(a, a)>>>>]

plot_statistical_plot(df, can_save) ==
    LET none == [exc |-> "none", df |-> df, panels |-> <<>>, saved |-> FALSE]
    IN  IF ~HasColumns(df, {"test group", "converted", "total ads"})
        THEN [none EXCEPT !.exc = "KeyError"]
        ELSE
        LET groups == <<"ad", "psa">>
            fig == [none EXCEPT !.panels =
                      [i \in 1 .. Len(groups) |-> StatisticalPanel(df, groups[i])] \o <<>>]
        IN  IF ~can_save
            THEN [fig EXCEPT !.exc = "OSError"]
            ELSE [fig EXCEPT !.saved = TRUE]

\* ------------------------------------------------------------- writing
\* The two labels are computed and dropped; the last line is a fixed text.
writing(m, c) ==
    [skew_label |->
        IF AbsLess(m[3], 1, 2) THEN "not skewed"
        ELSE IF Greater(m[3], 0, 1) THEN "right skewed" ELSE "left skewed",
     kurtosis_label |->
        IF AbsLess(m[4], 2, 1) THEN "mesokurtic"
        ELSE IF Greater(m[4], 2, 1) THEN "leptokurtic" ELSE "platykurtic",
     printed |->
        <<[print |-> "line", what |-> <<"For the attribute ", c, ":">>],
          [print |-> "line",
           what |-> <<"Mean = ", Format2(m[1], ", "),
                      "Standard Deviation = ", Format2(m[2], ", "),
                      "Skewness = ", Format2(m[3], ", and "),
                      "Excess Kurtosis = ", Format2(m[4], ".")>>],
          [print |-> "line",
           what |-> <<"The data was right/left/not skewed and platy/meso/leptokurtic.">>]>>]

\* ------------------------------------------------------------------ state
VARIABLES
    pc,             \* the statement of main that runs next; of a single call, its stage
    csv,            \* data.csv: NoFile or its content
    main_df,          \* df of main: the table the functions share
    loaded,         \* the table as it was read (as it was passed, for a single call)
    ret,            \* the value a single call of preprocessing returned
    stdout,         \* what was printed
    images,         \* the image files: whether written in this run, and what they show
    moments,        \* the moments statistical_analysis returned
    col,            \* the column name passed to statistical_analysis and writing
    last_bins,        \* bins of the last plot_relational_plot
    last_bin_labels,  \* its bin_labels
    skew_label,     \* skew_label of the last writing
    kurtosis_label, \* its kurtosis_label
    trace,          \* the steps entered, each with the columns it was given
    exc             \* the exception that ended the run, and the step that raised it

vars == <<pc, csv, main_df, loaded, ret, stdout, images, moments, col, last_bins,
          last_bin_labels, skew_label, kurtosis_label, trace, exc>>

ImageFiles == {"relational_plot.png", "categorical_plot.png", "statistical_plot.png"}

NoImage == [written |-> FALSE, panels |-> <<>>]
NoExc == [step |-> "none", type |-> "none"]

\* plt.savefig(file)
savefig(file, panels) == [images EXCEPT ![file] = [written |-> TRUE, panels |-> panels]]

\* what a step is given when it is entered
Entry(step) ==
    [step |-> step,
     columns |-> IF main_df.kind = "table" THEN main_df.columns ELSE <<>>,
     converted |-> IF main_df.kind = "table" /\ HasColumns(main_df, {"converted"})
                   THEN main_df.data["converted"].dtype
                   ELSE "absent"]

\* ------------------------------------------------------------------- main
\* The calls in the order Loader, Preprocessor, Relational Plotter, Categorical
\* Plotter, Statistical Plotter, Moment Calculator, Reporter.
MainSteps_categorical_first ==
    <<"read_csv", "preprocessing", "plot_relational_plot", "plot_categorical_plot",
      "plot_statistical_plot", "statistical_analysis", "writing">>

\* The calls of main, in its order.
MainSteps ==
    <<"read_csv", "preprocessing", "plot_relational_plot", "plot_statistical_plot",
      "plot_categorical_plot", "statistical_analysis", "writing">>

After(step) ==
    LET i == CHOOSE k \in 1 .. Len(MainSteps) : MainSteps[k] = step
    IN  IF i = Len(MainSteps) THEN "done" ELSE MainSteps[i + 1]

\* A main that catches the exception of a step and goes on with the next.
OnRaise_goes_on(step) == After(step)

\* main catches nothing: an exception of a step ends the run.
OnRaise(step) == "failed"

Outcome(step, e) ==
    IF IsError(e)
    THEN pc' = OnRaise(step) /\ exc' = [step |-> step, type |-> e]
    ELSE pc' = After(step) /\ exc' = exc

Init ==
    /\ pc = MainSteps[1]
    /\ csv \in CsvFiles \cup {NoFile}
    /\ main_df = NoTable
    /\ loaded = NoTable
    /\ ret = NoTable
    /\ stdout = <<>>
    /\ images = [f \in ImageFiles |-> NoImage]
    /\ moments = NoMoments
    /\ col = ""
    /\ last_bins = <<>>
    /\ last_bin_labels = <<>>
    /\ skew_label = ""
    /\ kurtosis_label = ""
    /\ trace = <<>>
    /\ exc = NoExc

\* df = pd.read_csv('data.csv', index_col=0)
ReadCsv ==
    /\ pc = "read_csv"
    /\ trace' = Append(trace, Entry("read_csv"))
    /\ IF csv = NoFile
       THEN Outcome("read_csv", "FileNotFoundError") /\ UNCHANGED <<main_df, loaded>>
       ELSE Outcome("read_csv", "none") /\ main_df' = read_csv(csv) /\ loaded' = read_csv(csv)
    /\ UNCHANGED <<csv, ret, stdout, images, moments, col, last_bins, last_bin_labels,
                   skew_label, kurtosis_label>>

\* df = preprocessing(df); col = 'total ads'
Preprocessing ==
    /\ pc = "preprocessing"
    /\ trace' = Append(trace, Entry("preprocessing"))
    /\ \E r \in {preprocessing(main_df)} :
         /\ stdout' = stdout \o r.printed
         /\ Outcome("preprocessing", r.exc)
         /\ IF IsError(r.exc)
            THEN main_df' = r.df /\ col' = col
            ELSE main_df' = r.ret /\ col' = "total ads"
    /\ UNCHANGED <<csv, loaded, ret, images, moments, last_bins, last_bin_labels,
                   skew_label, kurtosis_label>>

\* plot_relational_plot(df)
PlotRelational ==
    /\ pc = "plot_relational_plot"
    /\ trace' = Append(trace, Entry("plot_relational_plot"))
    /\ \E rnd \in RoundingsFor(main_df), can_save \in BOOLEAN :
         \E r \in {plot_relational_plot(main_df, rnd, can_save)} :
           /\ main_df' = r.df
           /\ last_bins' = r.bins
           /\ last_bin_labels' = r.labels
           /\ images' = IF r.saved THEN savefig("relational_plot.png", r.panels)
                        ELSE images
           /\ Outcome("plot_relational_plot", r.exc)
    /\ UNCHANGED <<csv, loaded, ret, stdout, moments, col, skew_label, kurtosis_label>>

\* plot_statistical_plot(df)
PlotStatistical ==
    /\ pc = "plot_statistical_plot"
    /\ trace' = Append(trace, Entry("plot_statistical_plot"))
    /\ \E can_save \in BOOLEAN :
         \E r \in {plot_statistical_plot(main_df, can_save)} :
           /\ main_df' = r.df
           /\ images' = IF r.saved THEN savefig("statistical_plot.png", r.panels)
                        ELSE images
           /\ Outcome("plot_statistical_plot", r.exc)
    /\ UNCHANGED <<csv, loaded, ret, stdout, moments, col, last_bins, last_bin_labels,
                   skew_label, kurtosis_label>>

\* plot_categorical_plot(df)
PlotCategorical ==
    /\ pc = "plot_categorical_plot"
    /\ trace' = Append(trace, Entry("plot_categorical_plot"))
    /\ \E can_save \in BOOLEAN :
         \E r \in {plot_categorical_plot(main_df, can_save)} :
           /\ main_df' = r.df
           /\ images' = IF r.saved THEN savefig("categorical_plot.png", r.panels)
                        ELSE images
           /\ Outcome("plot_categorical_plot", r.exc)
    /\ UNCHANGED <<csv, loaded, ret, stdout, moments, col, last_bins, last_bin_labels,
                   skew_label, kurtosis_label>>

\* moments = statistical_analysis(df, col)
StatisticalAnalysis ==
    /\ pc = "statistical_analysis"
    /\ trace' = Append(trace, Entry("statistical_analysis"))
    /\ \E constant \in ScipyConventions :
         \E r \in {statistical_analysis(main_df, col, constant)} :
           /\ moments' = r.ret
           /\ Outcome("statistical_analysis", r.exc)
    /\ UNCHANGED <<csv, main_df, loaded, ret, stdout, images, col, last_bins, last_bin_labels,
                   skew_label, kurtosis_label>>

\* writing(moments, col)
Writing ==
    /\ pc = "writing"
    /\ trace' = Append(trace, Entry("writing"))
    /\ \E r \in {writing(moments, col)} :
         /\ stdout' = stdout \o r.printed
         /\ skew_label' = r.skew_label
         /\ kurtosis_label' = r.kurtosis_label
    /\ Outcome("writing", "none")
    /\ UNCHANGED <<csv, main_df, loaded, ret, images, moments, col, last_bins, last_bin_labels>>

Next ==
    \/ ReadCsv
    \/ Preprocessing
    \/ PlotRelational
    \/ PlotStatistical
    \/ PlotCategorical
    \/ StatisticalAnalysis
    \/ Writing

Spec == Init /\ [][Next]_vars

\* ------------------------------------------------------ one call of a function
\* Each function of the script called once, on a table read from a data.csv;
\* writing on four moments.

\* the tables pd.read_csv yields
TablesIn == {read_csv(f) : f \in CsvFiles}

\* the column names passed as col
ColumnArgs == {"total ads", "most ads hour"}

\* moments passed to writing: the skewness by quarters and the excess kurtosis
\* by units, around the thresholds of the labels, and nan
SkewInputs == {NaN} \cup {Quot(p, 4) : p \in -4 .. 4}
KurtosisInputs == {NaN} \cup {Quot(p, 1) : p \in -3 .. 3}
MomentInputs ==
    {<<Quot(25, 1), Quot(44, 1), s, k>> : s \in SkewInputs, k \in KurtosisInputs}

InitCalls ==
    /\ pc = "idle"
    /\ csv = NoFile
    /\ \/ main_df \in TablesIn /\ moments = NoMoments
       \/ main_df = NoTable /\ moments \in MomentInputs
    /\ loaded = main_df
    /\ ret = NoTable
    /\ stdout = <<>>
    /\ images = [f \in ImageFiles |-> NoImage]
    /\ col = "total ads"
    /\ last_bins = <<>>
    /\ last_bin_labels = <<>>
    /\ skew_label = ""
    /\ kurtosis_label = ""
    /\ trace = <<>>
    /\ exc = NoExc

\* how a single call ends
CallOutcome(step, e) ==
    /\ pc' = IF IsError(e) THEN "raised" ELSE "returned"
    /\ exc' = IF IsError(e) THEN [step |-> step, type |-> e] ELSE exc

CallPreprocessing ==
    /\ pc = "idle" /\ main_df # NoTable
    /\ trace' = Append(trace, Entry("preprocessing"))
    /\ \E r \in {preprocessing(main_df)} :
         /\ stdout' = stdout \o r.printed
         /\ ret' = r.ret
         /\ main_df' = r.df
         /\ CallOutcome("preprocessing", r.exc)
    /\ UNCHANGED <<csv, loaded, images, moments, col, last_bins, last_bin_labels,
                   skew_label, kurtosis_label>>

CallRelational ==
    /\ pc = "idle" /\ main_df # NoTable
    /\ trace' = Append(trace, Entry("plot_relational_plot"))
    /\ \E rnd \in RoundingsFor(main_df), can_save \in BOOLEAN :
         \E r \in {plot_relational_plot(main_df, rnd, can_save)} :
           /\ main_df' = r.df
           /\ last_bins' = r.bins
           /\ last_bin_labels' = r.labels
           /\ images' = IF r.saved THEN savefig("relational_plot.png", r.panels)
                        ELSE images
           /\ CallOutcome("plot_relational_plot", r.exc)
    /\ UNCHANGED <<csv, loaded, ret, stdout, moments, col, skew_label, kurtosis_label>>

CallCategorical ==
    /\ pc = "idle" /\ main_df # NoTable
    /\ trace' = Append(trace, Entry("plot_categorical_plot"))
    /\ \E can_save \in BOOLEAN :
         \E r \in {plot_categorical_plot(main_df, can_save)} :
           /\ main_df' = r.df
           /\ images' = IF r.saved THEN savefig("categorical_plot.png", r.panels)
                        ELSE images
           /\ CallOutcome("plot_categorical_plot", r.exc)
    /\ UNCHANGED <<csv, loaded, ret, stdout, moments, col, last_bins, last_bin_labels,
                   skew_label, kurtosis_label>>

CallStatistical ==
    /\ pc = "idle" /\ main_df # NoTable
    /\ trace' = Append(trace, Entry("plot_statistical_plot"))
    /\ \E can_save \in BOOLEAN :
         \E r \in {plot_statistical_plot(main_df, can_save)} :
           /\ main_df' = r.df
           /\ images' = IF r.saved THEN savefig("statistical_plot.png", r.panels)
                        ELSE images
           /\ CallOutcome("plot_statistical_plot", r.exc)
    /\ UNCHANGED <<csv, loaded, ret, stdout, moments, col, last_bins, last_bin_labels,
                   skew_label, kurtosis_label>>

CallStatisticalAnalysis ==
    /\ pc = "idle" /\ main_df # NoTable
    /\ trace' = Append(trace, Entry("statistical_analysis"))
    /\ \E c \in ColumnArgs, constant \in ScipyConventions :
         \E r \in {statistical_analysis(main_df, c, constant)} :
           /\ col' = c
           /\ moments' = r.ret
           /\ CallOutcome("statistical_analysis", r.exc)
    /\ UNCHANGED <<csv, main_df, loaded, ret, stdout, images, last_bins,
                   last_bin_labels, skew_label, kurtosis_label>>

CallWriting ==
    /\ pc = "idle" /\ moments # NoMoments
    /\ trace' = Append(trace, Entry("writing"))
    /\ \E r \in {writing(moments, col)} :
         /\ stdout' = stdout \o r.printed
         /\ skew_label' = r.skew_label
         /\ kurtosis_label' = r.kurtosis_label
    /\ CallOutcome("writing", "none")
    /\ UNCHANGED <<csv, main_df, loaded, ret, images, moments, col, last_bins,
                   last_bin_labels>>

NextCalls ==
    \/ CallPreprocessing
    \/ CallRelational
    \/ CallCategorical
    \/ CallStatistical
    \/ CallStatisticalAnalysis
    \/ CallWriting

SpecCalls == InitCalls /\ [][NextCalls]_vars

\* ------------------------------------------------------------- properties
\* a single call of f has ended; has returned
Called(f) == pc \in {"returned", "raised"} /\ Len(trace) = 1 /\ trace[1].step = f
Returned(f) == Called(f) /\ pc = "returned"

StepsOf(t) == [i \in 1 .. Len(t) |-> t[i].step]

\* two tuples of moments hold the same numbers
SameMoments(a, b) == Len(a) = Len(b) /\ \A i \in 1 .. Len(a) : NumEq(a[i], b[i])

\* x >= p / q, x <= -(p / q) for p / q > 0
AtLeast(x, p, q) == ~IsNaN(x) /\ x.sign = 1 /\ CmpAbs(x, p, q) >= 0
AtMostMinus(x, p, q) == ~IsNaN(x) /\ x.sign = -1 /\ CmpAbs(x, p, q) >= 0

\* C1: statistical_analysis(df, col) returns the mean, the sample standard
\* deviation, the skewness and the excess kurtosis of the column col names.
C1_MomentsOfNamedColumn ==
    Returned("statistical_analysis") /\ HasColumns(main_df, {col})
        => \E constant \in ScipyConventions :
              SameMoments(moments, MomentsOf(main_df.data[col].values, constant))

\* C2: preprocessing(df) returns the table it was given, rows, columns and
\* cells as they were, leaves the table itself as it was, and besides that
\* only prints; when it raises (a table without 'total ads' or 'most ads
\* hour') the table is as it was too.
C2_PassThrough ==
    Called("preprocessing")
        => /\ main_df = loaded
           /\ pc = "returned" => ret = loaded
           /\ images = [f \in ImageFiles |-> NoImage]
           /\ moments = NoMoments

C2_Witness ==
    /\ Returned("preprocessing")
    /\ Len(loaded.index) >= 2
    /\ ret = loaded
    /\ Len(stdout) = 4

\* the rows of group g of table t whose total ads is above 100 (or is not)
RowsWhere(t, g, above) ==
    {i \in 1 .. Len(t.index) :
        /\ t.data["test group"].values[i] = g
        /\ (t.data["total ads"].values[i] > 100) = above}

CategoryName(above) == IF above THEN "Above 100 Ads" ELSE "Below 100 Ads"

\* C3: plot_categorical_plot classifies a row "Above 100 Ads" exactly when its
\* total ads is greater than 100, "Below 100 Ads" otherwise (100 itself is
\* below); for each of the groups "ad" and "psa" and each category with a row,
\* the plotted rate is 100 * converted rows / rows of that group and category,
\* and a category without a row of the group is not plotted.
C3_Categorical ==
    Returned("plot_categorical_plot")
        => /\ \A i \in 1 .. Len(loaded.index) :
                main_df.data["ads_category"].values[i]
                    = CategoryName(loaded.data["total ads"].values[i] > 100)
           /\ [k \in 1 .. 2 |-> images["categorical_plot.png"].panels[k].group]
                = <<"ad", "psa">>
           /\ \A k \in 1 .. 2, above \in BOOLEAN :
                \E panel \in {images["categorical_plot.png"].panels[k]},
                   rows \in {RowsWhere(loaded, <<"ad", "psa">>[k], above)} :
                     IF rows = {}
                     THEN CategoryName(above) \notin Range(panel.x)
                     ELSE \E j \in 1 .. Len(panel.x) :
                            /\ panel.x[j] = CategoryName(above)
                            /\ NumEq(panel.y[j],
                                     Quot(100 * Cardinality(
                                            {i \in rows : loaded.data["converted"].values[i]}),
                                          Cardinality(rows)))

\* the rows of C3's example: 50 ads, converted, and 150 ads, not converted,
\* both of group "ad", plotted as 100 % below and 0 % above
C3_Witness ==
    /\ Returned("plot_categorical_plot")
    /\ loaded.data["test group"].values = <<"ad", "ad">>
    /\ loaded.data["total ads"].values = <<50, 150>>
    /\ loaded.data["converted"].values = <<TRUE, FALSE>>
    /\ images["categorical_plot.png"].panels[1].x = <<"Above 100 Ads", "Below 100 Ads">>
    /\ NumEq(images["categorical_plot.png"].panels[1].y[1], Quot(0, 1))
    /\ NumEq(images["categorical_plot.png"].panels[1].y[2], Quot(100, 1))

\* the largest total ads of the table a call was given
MaxTotalAds == MaxOfSeq(loaded.data["total ads"].values)

EdgesIncrease(b) == \A i \in 1 .. Len(b) - 1 : EdgeCmp(b[i], b[i + 1]) < 0
EdgesAllEqual(b) == \A i \in 1 .. Len(b) : EdgeCmp(b[1], b[i]) = 0
FirstEdgeIs(b, x) == ValueCmpEdge(x, b[1]) = 0
LastEdgeIs(b, x) == ValueCmpEdge(x, b[Len(b)]) = 0
\* the last edge lies strictly between x - 1 and x + 1
LastEdgeNear(b, x) ==
    ValueCmpEdge(x - 1, b[Len(b)]) < 0 /\ ValueCmpEdge(x + 1, b[Len(b)]) > 0

\* C4, as the code has it: plot_relational_plot computes 10 edges, the first
\* exactly 1, and 9 labels.  For a maximum total ads of 2 or more the edges are
\* strictly increasing and the last is max(total ads) up to the rounding of
\* 10 ** log10(max): exactly max when max is a power of ten, otherwise within
\* a rounding of it, above or below.  For a maximum of 1 all ten edges are 1,
\* and pd.cut raises ValueError.
C4_Edges ==
    Called("plot_relational_plot") /\ HasColumns(loaded, {"total ads"})
        => /\ Len(last_bins) = 10
           /\ Len(last_bin_labels) = 9
           /\ FirstEdgeIs(last_bins, 1)
           /\ LastEdgeNear(last_bins, MaxTotalAds)
           /\ IsPowerOfTen(MaxTotalAds) => LastEdgeIs(last_bins, MaxTotalAds)
           /\ MaxTotalAds >= 2 => EdgesIncrease(last_bins)
           /\ MaxTotalAds = 1
                => /\ EdgesAllEqual(last_bins)
                   /\ exc = [step |-> "plot_relational_plot", type |-> "ValueError"]

\* ten increasing edges for a maximum of 150, the last one rounded below 150
C4_Witness ==
    /\ Returned("plot_relational_plot")
    /\ MaxTotalAds = 150
    /\ Len(last_bins) = 10
    /\ EdgesIncrease(last_bins)
    /\ ValueCmpEdge(150, last_bins[10]) > 0

\* C4 as stated: for every maximum total ads >= 1 the 10 edges are strictly
\* increasing, the first is 1 and the last is max(total ads), with 9 labels.
C4_AsStated ==
    Called("plot_relational_plot") /\ HasColumns(loaded, {"total ads"})
        => /\ Len(last_bins) = 10
           /\ Len(last_bin_labels) = 9
           /\ EdgesIncrease(last_bins)
           /\ FirstEdgeIs(last_bins, 1)
           /\ LastEdgeIs(last_bins, MaxTotalAds)

\* C8: every row whose total ads lies in [1, max(total ads)] gets one of the
\* 9 bucket labels as its log_ads_bin, the rows of 1 ad and the rows of the
\* maximum included.
C8_EveryRowBucketed ==
    Called("plot_relational_plot") /\ HasColumns(main_df, {"log_ads_bin"})
        => \A i \in 1 .. Len(main_df.index) :
              main_df.data["log_ads_bin"].values[i] \in Range(last_bin_labels)

\* C9: plot_relational_plot draws one panel for each distinct test group of
\* the table, however many there are, and completes (given that the image
\* file can be written).
C9_PanelPerGroup ==
    (/\ Called("plot_relational_plot")
     /\ HasColumns(main_df, {"log_ads_bin", "test group", "converted"})
     /\ exc.type # "OSError")
        => /\ pc = "returned"
           /\ images["relational_plot.png"].written
           /\ Len(images["relational_plot.png"].panels)
                = Cardinality(Range(loaded.data["test group"].values))
           /\ \A g \in Range(loaded.data["test group"].values) :
                \E k \in 1 .. Len(images["relational_plot.png"].panels) :
                    images["relational_plot.png"].panels[k].group = g

\* C10: writing labels the skewness "not skewed" iff |skewness| < 0.5, "right
\* skewed" iff skewness >= 0.5, "left skewed" iff skewness <= -0.5; the excess
\* kurtosis "mesokurtic" iff |kurtosis| < 2, "leptokurtic" iff kurtosis >= 2,
\* "platykurtic" iff kurtosis <= -2; and the last sentence printed names the
\* two labels.
C10_Labels ==
    Returned("writing")
        => /\ skew_label = "not skewed" <=> AbsLess(moments[3], 1, 2)
           /\ skew_label = "right skewed" <=> AtLeast(moments[3], 1, 2)
           /\ skew_label = "left skewed" <=> AtMostMinus(moments[3], 1, 2)
           /\ kurtosis_label = "mesokurtic" <=> AbsLess(moments[4], 2, 1)
           /\ kurtosis_label = "leptokurtic" <=> AtLeast(moments[4], 2, 1)
           /\ kurtosis_label = "platykurtic" <=> AtMostMinus(moments[4], 2, 1)
           /\ stdout[Len(stdout)].what
                = <<"The data was ", skew_label, " and ", kurtosis_label, ".">>

\* C5, as the code has it: main runs each step once, in the order read_csv,
\* preprocessing, plot_relational_plot, plot_statistical_plot,
\* plot_categorical_plot, statistical_analysis, writing; statistical_plot.png
\* is written before categorical_plot.png; and plot_statistical_plot is given
\* the table with converted as it was read (boolean) and without ads_category.
C5_MainOrder ==
    /\ StepsOf(trace)
         = SubSeq(<<"read_csv", "preprocessing", "plot_relational_plot",
                    "plot_statistical_plot", "plot_categorical_plot",
                    "statistical_analysis", "writing">>, 1, Len(trace))
    /\ pc = "done" => Len(trace) = 7
    /\ images["categorical_plot.png"].written => images["statistical_plot.png"].written
    /\ \A i \in 1 .. Len(trace) :
         trace[i].step = "plot_statistical_plot"
            => /\ trace[i].converted = "bool"
               /\ "log_ads_bin" \in Range(trace[i].columns)
               /\ "ads_category" \notin Range(trace[i].columns)

\* a complete run: all seven steps, all three images
C5_Witness ==
    /\ pc = "done"
    /\ Len(trace) = 7
    /\ \A f \in ImageFiles : images[f].written
    /\ Len(stdout) = 7

\* C5 as stated: the steps run in the order Loader, Preprocessor, Relational
\* Plotter, Categorical Plotter, Statistical Plotter, Moment Calculator,
\* Reporter; categorical_plot.png is written before statistical_plot.png; the
\* Statistical Plotter is given the table with converted cast to integer and
\* ads_category appended.
C5_AsStated ==
    /\ StepsOf(trace)
         = SubSeq(<<"read_csv", "preprocessing", "plot_relational_plot",
                    "plot_categorical_plot", "plot_statistical_plot",
                    "statistical_analysis", "writing">>, 1, Len(trace))
    /\ images["statistical_plot.png"].written => images["categorical_plot.png"].written
    /\ \A i \in 1 .. Len(trace) :
         trace[i].step = "plot_statistical_plot"
            => /\ trace[i].converted = "int64"
               /\ "ads_category" \in Range(trace[i].columns)

\* the step that writes an image file
PlotterOf(f) ==
    IF f = "relational_plot.png" THEN "plot_relational_plot"
    ELSE IF f = "categorical_plot.png" THEN "plot_categorical_plot"
    ELSE "plot_statistical_plot"

\* the lines writing prints
MomentLines == {i \in 1 .. Len(stdout) : stdout[i].print = "line"}

\* C6: an exception of a step is not caught: the run ends at that step, which
\* is the last one entered, no step is entered twice, and nothing of a later
\* step is produced.  When read_csv fails no image is written and nothing is
\* printed; when a plotter fails the images of the plotters before it are
\* written, its own and those of the plotters after it are not, and no
\* moments are computed or printed.
C6_FailStop ==
    /\ pc = "failed" <=> exc # NoExc
    /\ \A i, j \in 1 .. Len(trace) : trace[i].step = trace[j].step => i = j
    /\ exc # NoExc
        => /\ trace # <<>>
           /\ trace[Len(trace)].step = exc.step
           /\ \A f \in ImageFiles :
                images[f].written
                    <=> \E i \in 1 .. Len(trace) - 1 : trace[i].step = PlotterOf(f)
           /\ exc.step = "read_csv"
                => /\ \A f \in ImageFiles : ~images[f].written
                   /\ stdout = <<>>
                   /\ main_df = NoTable
           /\ exc.step \in {PlotterOf(f) : f \in ImageFiles}
                => moments = NoMoments /\ MomentLines = {}
           /\ exc.step # "writing" /\ MomentLines = {}

\* plot_statistical_plot fails after plot_relational_plot has written its image
C6_Witness ==
    /\ pc = "failed"
    /\ exc.step = "plot_statistical_plot"
    /\ images["relational_plot.png"].written
    /\ ~images["statistical_plot.png"].written
    /\ ~images["categorical_plot.png"].written

\* C7, as the code has it: at the end of a complete run the table has the
\* loaded columns followed by log_ads_bin and ads_category and the loaded
\* rows; test group, total ads and most ads hour are as loaded; converted
\* holds the integers 1 and 0 where True and False were loaded.
\* plot_statistical_plot, statistical_analysis and writing leave the table as
\* it is.
C7_TableAtEnd ==
    /\ [](pc = "done"
            => /\ main_df.columns = loaded.columns \o <<"log_ads_bin", "ads_category">>
               /\ main_df.index = loaded.index
               /\ \A c \in {"test group", "total ads", "most ads hour"} :
                    main_df.data[c] = loaded.data[c]
               /\ loaded.data["converted"].dtype = "bool"
               /\ main_df.data["converted"].dtype = "int64"
               /\ \A i \in 1 .. Len(loaded.index) :
                    main_df.data["converted"].values[i]
                        = IF loaded.data["converted"].values[i] THEN 1 ELSE 0)
    /\ [][(pc \in {"plot_statistical_plot", "statistical_analysis", "writing"}
              => main_df' = main_df)]_vars

\* a complete run on a table of two or more rows, one of them converted
C7_Witness ==
    /\ pc = "done"
    /\ Len(loaded.index) >= 2
    /\ TRUE \in Range(loaded.data["converted"].values)
    /\ 1 \in Range(main_df.data["converted"].values)
    /\ Len(main_df.columns) = 6

\* C7 as stated: at the end of a complete run the columns are the loaded ones
\* plus log_ads_bin and ads_category, the rows are the loaded rows, and every
\* loaded column holds the cells it held after loading.
C7_AsStated ==
    pc = "done"
        => /\ main_df.columns = loaded.columns \o <<"log_ads_bin", "ads_category">>
           /\ main_df.index = loaded.index
           /\ \A c \in Range(loaded.columns) :
                /\ main_df.data[c].dtype = loaded.data[c].dtype
                /\ main_df.data[c].values = loaded.data[c].values
====
